---- MODULE Spec2Model ----
(***************************************************************************)
(* Model of src/pages/EDA.py: a Streamlit page that is re-executed from    *)
(* top to bottom on every interaction.  One execution ingests the uploaded *)
(* files into the registry `dataframes`, optionally joins two entries,     *)
(* lets the user pick a working dataset, projects columns, filters rows    *)
(* and renders the summary views.                                          *)
(*                                                                         *)
(* A cell value is a string token; the token "NaN" is the missing value    *)
(* (pd.read_csv reads the text NaN as missing).  A column carries a dtype  *)
(* tag: "num" (int/float) or "str" (object).                               *)
(***************************************************************************)
EXTENDS Integers, Sequences, FiniteSets, TLC

\* ----------------------------------------------------------------- bounds
MaxUploads == 2

\* ------------------------------------------------------------- dataframes
NaN == "NaN"

DataFrame(cols, types, rws) == [columns |-> cols, dtypes |-> types, rows |-> rws]

NoFrame == DataFrame(<<>>, <<>>, <<>>)

Range(s) == {s[i] : i \in DOMAIN s}

\* position of column c in frame d (columns of a frame are distinct)
ColIndex(d, c) == CHOOSE i \in DOMAIN d.columns : d.columns[i] = c

\* ------------------------------------------------------ the uploaded files
\* A file is its name (the parts between the dots), whether the parsing
\* library accepts its bytes, and the sheets it holds (a CSV holds one).
File(parts, ok, shts) == [name |-> parts, parses |-> ok, sheets |-> shts]

Sheet(n, d) == [sheet |-> n, frame |-> d]

FrameA == DataFrame(<<"id", "val">>, <<"num", "num">>,
                    << <<"1", "10">>, <<"2", "20">> >>)

FrameB == DataFrame(<<"id", "val2">>, <<"num", "num">>,
                    << <<"1", "100">>, <<"3", "300">> >>)

FrameS == DataFrame(<<"id", "species">>, <<"str", "str">>,
                    << <<"x", "A">>, <<"x", "A">>, <<"y", "A">>, <<NaN, "A">>,
                       <<"x", "B">>, <<"y", "B">>, <<"y", "B">>,
                       <<NaN, "C">>, <<"y", "C">>, <<"y", "C">> >>)

FrameP == DataFrame(<<"id", "z">>, <<"num", "num">>,
                    << <<NaN, "5">>, <<"2", "6">>, <<"2", "9">> >>)

FrameQ == DataFrame(<<"id", "val">>, <<"num", "num">>,
                    << <<"2", "1">>, <<NaN, "3">> >>)

Catalogue ==
    { File(<<"a", "csv">>, TRUE, <<Sheet("", FrameA)>>),
      File(<<"b", "csv">>, TRUE, <<Sheet("", FrameB)>>),
      File(<<"s", "CSV">>, TRUE, <<Sheet("", FrameS)>>),
      File(<<"x", "xlsx">>, TRUE, <<Sheet("p", FrameP), Sheet("q", FrameQ)>>),
      File(<<"[Joined] x", "xlsx - p x x", "xlsx">>, TRUE, <<Sheet("q", NoFrame)>>),
      File(<<"bad", "csv">>, FALSE, <<>>) }

\* ---------------------------------------------------------- load_dataframe
RECURSIVE JoinDots(_)
JoinDots(parts) ==
    IF Len(parts) = 1 THEN parts[1]
    ELSE parts[1] \o "." \o JoinDots(Tail(parts))

FileName(file) == JoinDots(file.name)

\* str.lower on the extension tokens that occur
Lower(s) ==
    CASE s = "CSV"  -> "csv"
      [] s = "XLSX" -> "xlsx"
      [] s = "XLS"  -> "xls"
      [] OTHER      -> s

\* file.name.split(".")[-1].lower()
FileType(file) == Lower(file.name[Len(file.name)])

EmptyDict == [n \in {} |-> NoFrame]

\* dict.update: entries of e replace entries of d with the same name
Update(d, e) ==
    [n \in DOMAIN d \cup DOMAIN e |-> IF n \in DOMAIN e THEN e[n] ELSE d[n]]

\* pd.read_csv / pd.ExcelFile raise on bytes they cannot parse; nothing in
\* load_dataframe catches the exception
LoadRaises(file) ==
    /\ FileType(file) \in {"csv", "xlsx", "xls"}
    /\ ~file.parses

SheetName(file, i) == FileName(file) \o " - " \o file.sheets[i].sheet

load_dataframe(file) ==
    IF FileType(file) = "csv"
    THEN [n \in {FileName(file)} |-> file.sheets[1].frame]
    ELSE IF FileType(file) \in {"xlsx", "xls"}
    THEN [n \in {SheetName(file, i) : i \in DOMAIN file.sheets} |->
            LET i == CHOOSE j \in DOMAIN file.sheets : SheetName(file, j) = n
            IN  file.sheets[i].frame]
    ELSE EmptyDict

\* the ingestion loop over the first k files
RECURSIVE LoadAll(_, _)
LoadAll(files, k) ==
    IF k = 0 THEN EmptyDict
    ELSE Update(LoadAll(files, k - 1), load_dataframe(files[k]))

\* index of the first file whose parsing raises, 0 if none does
FirstRaising(files) ==
    IF \E i \in DOMAIN files : LoadRaises(files[i])
    THEN CHOOSE i \in DOMAIN files :
            /\ LoadRaises(files[i])
            /\ \A j \in 1..(i - 1) : ~LoadRaises(files[j])
    ELSE 0

\* ---------------------------------------------------------------- pd.merge
JoinTypes == {"inner", "left", "right", "outer"}

\* list(set(left_df.columns) & set(right_df.columns))
CommonCols(l, r) == Range(l.columns) \cap Range(r.columns)

ColType(d, c) == d.dtypes[ColIndex(d, c)]

\* pd.merge raises ValueError when a key column is numeric in one frame and
\* object in the other
MergeRaises(l, r, on) == \E k \in on : ColType(l, k) # ColType(r, k)

\* key matching in which a missing key matches nothing
KeysMatchNotNull(l, lrow, r, rrow, on) ==
    \A k \in on : /\ lrow[ColIndex(l, k)] = rrow[ColIndex(r, k)]
                  /\ lrow[ColIndex(l, k)] # NaN

\* pandas matches key tuples by value, and a missing key equals a missing key
KeysMatch(l, lrow, r, rrow, on) ==
    \A k \in on : lrow[ColIndex(l, k)] = rrow[ColIndex(r, k)]

\* the columns of the right frame that are not keys
RightRest(r, on) == SelectSeq(r.columns, LAMBDA c : c \notin on)

\* key columns appear once; a non-key column present in both frames gets the
\* suffix _x (left) or _y (right)
MergedColumns(l, r, on) ==
    [i \in DOMAIN l.columns |->
        IF l.columns[i] \notin on /\ l.columns[i] \in Range(r.columns)
        THEN l.columns[i] \o "_x" ELSE l.columns[i]]
    \o
    [j \in DOMAIN RightRest(r, on) |->
        IF RightRest(r, on)[j] \in Range(l.columns)
        THEN RightRest(r, on)[j] \o "_y" ELSE RightRest(r, on)[j]]

MergedDtypes(l, r, on) ==
    l.dtypes \o [j \in DOMAIN RightRest(r, on) |-> ColType(r, RightRest(r, on)[j])]

RightPart(r, rrow, on) ==
    [j \in DOMAIN RightRest(r, on) |-> rrow[ColIndex(r, RightRest(r, on)[j])]]

\* a left row combined with a matching right row
PairRow(l, lrow, r, rrow, on) == lrow \o RightPart(r, rrow, on)

\* a left row without a match: the right-only columns are missing
LeftOnlyRow(l, lrow, r, on) == lrow \o [j \in DOMAIN RightRest(r, on) |-> NaN]

\* a right row without a match: the keys come from the right row, the other
\* left columns are missing
RightOnlyRow(l, r, rrow, on) ==
    [i \in DOMAIN l.columns |->
        IF l.columns[i] \in on THEN rrow[ColIndex(r, l.columns[i])] ELSE NaN]
    \o RightPart(r, rrow, on)

RECURSIVE Concat(_)
Concat(ss) == IF ss = <<>> THEN <<>> ELSE Head(ss) \o Concat(Tail(ss))

RightMatches(l, lrow, r, on) ==
    SelectSeq(r.rows, LAMBDA rrow : KeysMatch(l, lrow, r, rrow, on))

LeftMatches(l, r, rrow, on) ==
    SelectSeq(l.rows, LAMBDA lrow : KeysMatch(l, lrow, r, rrow, on))

\* rows driven by the left frame, in left order
LeftDriven(l, r, on, keepUnmatched) ==
    Concat([i \in DOMAIN l.rows |->
        LET m == RightMatches(l, l.rows[i], r, on)
        IN  IF m = <<>>
            THEN IF keepUnmatched THEN <<LeftOnlyRow(l, l.rows[i], r, on)>> ELSE <<>>
            ELSE [j \in DOMAIN m |-> PairRow(l, l.rows[i], r, m[j], on)]])

\* rows driven by the right frame, in right order
RightDriven(l, r, on) ==
    Concat([i \in DOMAIN r.rows |->
        LET m == LeftMatches(l, r, r.rows[i], on)
        IN  IF m = <<>>
            THEN <<RightOnlyRow(l, r, r.rows[i], on)>>
            ELSE [j \in DOMAIN m |-> PairRow(l, m[j], r, r.rows[i], on)]])

UnmatchedRight(l, r, on) ==
    Concat([i \in DOMAIN r.rows |->
        IF LeftMatches(l, r, r.rows[i], on) = <<>>
        THEN <<RightOnlyRow(l, r, r.rows[i], on)>> ELSE <<>>])

\* pd.merge(left_df, right_df, on=join_cols, how=join_type), when it does
\* not raise.  The order of the rows of an outer join is the left-driven
\* rows followed by the unmatched right rows.
merge(l, r, on, how) ==
    DataFrame(MergedColumns(l, r, on), MergedDtypes(l, r, on),
        CASE how = "inner" -> LeftDriven(l, r, on, FALSE)
          [] how = "left"  -> LeftDriven(l, r, on, TRUE)
          [] how = "right" -> RightDriven(l, r, on)
          [] how = "outer" -> LeftDriven(l, r, on, TRUE) \o UnmatchedRight(l, r, on))

\* a label with the two names swapped
JoinLabelSwapped(l, r) == "[Joined] " \o r \o " x " \o l

\* f"[Joined] {left_name} x {right_name}"
JoinLabel(l, r) == "[Joined] " \o l \o " x " \o r

\* --------------------------------------------------------- filter_dataframe
\* df.select_dtypes(include=["object", "category"]).columns.tolist()
CategoricalCols(d) == SelectSeq(d.columns, LAMBDA c : ColType(d, c) = "str")

\* df[col].dropna().unique().tolist()
Options(d, col) == {d.rows[i][ColIndex(d, col)] : i \in DOMAIN d.rows} \ {NaN}

\* a row filter that lets missing values through
IsinOrNull(d, col, selection) ==
    [d EXCEPT !.rows = SelectSeq(d.rows,
        LAMBDA row : row[ColIndex(d, col)] \in selection \cup {NaN})]

\* df[df[col].isin(selection)]
Isin(d, col, selection) ==
    [d EXCEPT !.rows = SelectSeq(d.rows, LAMBDA row : row[ColIndex(d, col)] \in selection)]

\* The loop of filter_dataframe over the categorical columns `cols`: every
\* way the user can answer the multiselects, with the frame that results.
\* The options of a column are taken from the rows left by the columns before.
RECURSIVE FilterRuns(_, _)
FilterRuns(d, cols) ==
    IF cols = <<>> THEN {[selections |-> <<>>, frame |-> d]}
    ELSE UNION { { [selections |-> <<s>> \o run.selections, frame |-> run.frame] :
                     run \in FilterRuns(Isin(d, Head(cols), s), Tail(cols)) } :
                 s \in SUBSET Options(d, Head(cols)) }

\* df[selected_columns]
Project(d, cols) ==
    DataFrame(cols,
              [i \in DOMAIN cols |-> ColType(d, cols[i])],
              [k \in DOMAIN d.rows |-> [i \in DOMAIN cols |-> d.rows[k][ColIndex(d, cols[i])]]])

\* what st.multiselect can return over `options`: the chosen options, in the
\* order they were chosen
Selections(options) ==
    UNION { { s \in [1..n -> Range(options)] : \A i, j \in 1..n : s[i] = s[j] => i = j }
            : n \in 0..Len(options) }

\* df.select_dtypes(include=["float", "int"]).columns
NumericCols(d) == SelectSeq(d.columns, LAMBDA c : ColType(d, c) = "num")

\* -------------------------------------------------------------------- state
VARIABLES
    uploads,            \* the files held by the uploader widget
    pc,                 \* position of the current execution of the script
    dataframes,         \* the registry: display name -> frame
    left_name,          \* st.selectbox "Select Left Dataset"
    right_name,         \* st.selectbox "Select Right Dataset"
    join_cols,          \* st.multiselect "Select column(s) to join on"
    join_type,          \* st.selectbox "Join Type"
    button,             \* what st.button("Join Datasets") returned
    button_shown,       \* the page shows the button (from the last execution)
    selected_df_name,   \* st.selectbox "Available datasets (raw or joined)"
    df,                 \* the working frame
    selected_columns,   \* st.multiselect "Select columns for analysis"
    selections,         \* the answers to the row filter multiselects
    out,                \* the elements rendered by this execution, in order
    joined              \* history, kept by SessionSpec only: label of the last
                        \* join that succeeded since the uploaded files changed

vars == <<uploads, pc, dataframes, left_name, right_name, join_cols, join_type,
          button, button_shown, selected_df_name, df, selected_columns,
          selections, out, joined>>

None == "None"

joinVars == <<left_name, right_name, join_cols, join_type, button>>
edaVars == <<selected_df_name, df, selected_columns, selections>>

\* a fresh execution: the script's namespace is empty
FreshRun ==
    /\ pc' = "start"
    /\ dataframes' = EmptyDict
    /\ left_name' = None /\ right_name' = None
    /\ join_cols' = {} /\ join_type' = None /\ button' = FALSE
    /\ selected_df_name' = None /\ df' = NoFrame
    /\ selected_columns' = <<>> /\ selections' = <<>>
    /\ out' = <<>>

Init ==
    /\ uploads = <<>>
    /\ pc = "start"
    /\ dataframes = EmptyDict
    /\ left_name = None /\ right_name = None
    /\ join_cols = {} /\ join_type = None /\ button = FALSE
    /\ button_shown = FALSE
    /\ selected_df_name = None /\ df = NoFrame
    /\ selected_columns = <<>> /\ selections = <<>>
    /\ out = <<>>
    /\ joined = None

Finished == pc \in {"done", "stopped", "crashed"}

\* st.sidebar.file_uploader(..., accept_multiple_files=True): the user adds
\* a file to the list; the script is executed again
AddFile(f) ==
    /\ Finished
    /\ Len(uploads) < MaxUploads
    /\ f \notin Range(uploads)
    /\ uploads' = Append(uploads, f)
    /\ joined' = None
    /\ button_shown' = FALSE
    /\ FreshRun

\* the user removes the i-th file from the list; the script is executed again
RemoveFile(i) ==
    /\ Finished
    /\ i \in DOMAIN uploads
    /\ uploads' = SubSeq(uploads, 1, i - 1) \o SubSeq(uploads, i + 1, Len(uploads))
    /\ joined' = None
    /\ button_shown' = FALSE
    /\ FreshRun

\* the user changes a widget or presses the button; the script is executed
\* again with the same files.  Widgets exist once ingestion has passed.
Interact ==
    /\ pc \in {"done", "stopped"}
    /\ uploads # <<>>
    /\ UNCHANGED <<uploads, joined, button_shown>>
    /\ FreshRun

\* lines 96-102: the registry is rebuilt from the uploaded files
Ingest ==
    /\ pc = "start"
    /\ IF uploads # <<>>
       THEN IF FirstRaising(uploads) = 0
            THEN /\ dataframes' = LoadAll(uploads, Len(uploads))
                 /\ pc' = "join"
                 /\ out' = out
            ELSE /\ dataframes' = LoadAll(uploads, FirstRaising(uploads) - 1)
                 /\ pc' = "crashed"
                 /\ out' = Append(out, "exception")
       ELSE /\ dataframes' = EmptyDict
            /\ out' = Append(out, "warning: upload files")
            /\ pc' = "stopped"
    /\ UNCHANGED <<uploads, joined, button_shown>>
    /\ UNCHANGED joinVars
    /\ UNCHANGED edaVars

\* a failed join that leaves a placeholder under the join label
TryJoinEarlyInsert(l, r, jc, jt) ==
    IF MergeRaises(dataframes[l], dataframes[r], jc)
    THEN /\ out' = Append(out, "error: join failed")
         /\ dataframes' = Update(dataframes, [n \in {JoinLabel(l, r)} |-> NoFrame])
    ELSE /\ dataframes' = Update(dataframes,
                [n \in {JoinLabel(l, r)} |-> merge(dataframes[l], dataframes[r], jc, jt)])
         /\ out' = out \o <<"success: join complete", "dataframe: joined", "download: joined">>

\* lines 131-141: the try block of a triggered join
TryJoin(l, r, jc, jt) ==
    IF MergeRaises(dataframes[l], dataframes[r], jc)
    THEN /\ out' = Append(out, "error: join failed")
         /\ UNCHANGED dataframes
    ELSE /\ dataframes' = Update(dataframes,
                [n \in {JoinLabel(l, r)} |-> merge(dataframes[l], dataframes[r], jc, jt)])
         /\ out' = out \o <<"success: join complete", "dataframe: joined", "download: joined">>

\* a guard that lets a dataset be joined with itself
AnyTwoDatasets(l, r) == TRUE

\* line 121: `if left_name != right_name`
DifferentDatasets(l, r) == l # r

\* lines 117-145 (the history variable is set by the caller)
JoinSection ==
    /\ pc = "join"
    /\ \E l \in DOMAIN dataframes, r \in DOMAIN dataframes :
        /\ left_name' = l
        /\ right_name' = r
        /\ IF DifferentDatasets(l, r)
           THEN IF CommonCols(dataframes[l], dataframes[r]) # {}
                THEN \E jc \in SUBSET CommonCols(dataframes[l], dataframes[r]),
                        jt \in JoinTypes, b \in {FALSE, button_shown} :
                        /\ join_cols' = jc
                        /\ join_type' = jt
                        \* `join_cols and st.button(...)`: no button without
                        \* keys; it returns True only when it was pressed
                        /\ button' = (jc # {} /\ b)
                        /\ button_shown' = (jc # {})
                        /\ IF jc # {} /\ b
                           THEN TryJoin(l, r, jc, jt)
                           ELSE UNCHANGED <<dataframes, out>>
                ELSE /\ out' = Append(out, "info: no common columns")
                     /\ button_shown' = FALSE
                     /\ UNCHANGED <<dataframes, join_cols, join_type, button>>
           ELSE /\ out' = Append(out, "info: select two different datasets")
                /\ button_shown' = FALSE
                /\ UNCHANGED <<dataframes, join_cols, join_type, button>>
    /\ pc' = "eda"
    /\ UNCHANGED uploads
    /\ UNCHANGED edaVars

\* lines 150-152
SelectDataset ==
    /\ pc = "eda"
    /\ IF DOMAIN dataframes # {}
       THEN \E n \in DOMAIN dataframes :
               /\ selected_df_name' = n
               /\ df' = dataframes[n]
               /\ pc' = "cols"
               /\ out' = out
       ELSE \* the selectbox yields None and dataframes[None] raises KeyError
            /\ pc' = "crashed"
            /\ out' = Append(out, "exception")
            /\ UNCHANGED <<selected_df_name, df>>
    /\ UNCHANGED <<uploads, dataframes, selected_columns, selections, joined,
                   button_shown>>
    /\ UNCHANGED joinVars

\* a test that lets an empty selection through
NeverEmpty(sc) == FALSE

\* line 161: `if not selected_columns`
NoColumns(sc) == sc = <<>>

\* lines 158-165
ColumnSelection ==
    /\ pc = "cols"
    /\ \E sc \in Selections(df.columns) :
        /\ selected_columns' = sc
        /\ IF NoColumns(sc)
           THEN /\ out' = Append(out, "warning: select at least one column")
                /\ pc' = "stopped"
                /\ df' = df
           ELSE /\ df' = Project(df, sc)
                /\ pc' = "filter"
                /\ out' = out
    /\ UNCHANGED <<uploads, dataframes, selected_df_name, selections, joined,
                   button_shown>>
    /\ UNCHANGED joinVars

\* line 166
FilterRows ==
    /\ pc = "filter"
    /\ \E run \in FilterRuns(df, CategoricalCols(df)) :
        /\ selections' = run.selections
        /\ df' = run.frame
    /\ out' = Append(out, "row filter")
    /\ pc' = "render"
    /\ UNCHANGED <<uploads, dataframes, selected_df_name, selected_columns, joined,
                   button_shown>>
    /\ UNCHANGED joinVars

\* lines 169-179; the contents of the tables and charts are not modelled
Render ==
    /\ pc = "render"
    /\ \E y_cols \in SUBSET Range(NumericCols(df)) :
        out' = out
               \o <<"download: selected", "overview", "summary statistics", "univariate">>
               \o (IF y_cols # {} THEN <<"line plot">> ELSE <<>>)
               \o (IF Len(NumericCols(df)) < 2 THEN <<"info: not enough numeric features">>
                   ELSE <<"correlation heatmap">>)
    /\ pc' = "done"
    /\ UNCHANGED <<uploads, dataframes, selected_df_name, df, selected_columns,
                   selections, joined, button_shown>>
    /\ UNCHANGED joinVars

Next ==
    \/ \E f \in Catalogue : AddFile(f)
    \/ \E i \in 1..MaxUploads : RemoveFile(i)
    \/ Interact
    \/ Ingest
    \/ (JoinSection /\ UNCHANGED joined)
    \/ SelectDataset
    \/ ColumnSelection
    \/ FilterRows
    \/ Render

Spec == Init /\ [][Next]_vars

\* The same program, with the history of the session's joins recorded.
RecordJoin ==
    joined' = IF \E i \in DOMAIN out' : out'[i] = "success: join complete"
              THEN JoinLabel(left_name', right_name')
              ELSE joined

SessionNext ==
    \/ \E f \in Catalogue : AddFile(f)
    \/ \E i \in 1..MaxUploads : RemoveFile(i)
    \/ Interact
    \/ Ingest
    \/ (JoinSection /\ RecordJoin)
    \/ SelectDataset
    \/ ColumnSelection
    \/ FilterRows
    \/ Render

SessionSpec == Init /\ [][SessionNext]_vars

\* ------------------------------------------------------------------ claims
Has(e) == \E i \in DOMAIN out : out[i] = e

\* the registry as ingestion leaves it
Ingested == LoadAll(uploads, Len(uploads))

\* the join section has been passed in this execution
PastJoin == pc \in {"eda", "cols", "filter", "render", "done"} \/ (pc = "stopped" /\ uploads # <<>>)

\* C1: once a join has succeeded in this session, the registry of every later
\* execution over the same uploaded files still holds the entry of that join
\* when the dataset for EDA is chosen.
C1_JoinSurvivesRerun ==
    (pc = "eda" /\ joined # None) => joined \in DOMAIN dataframes

\* C2: when the merge of a triggered join raises, the error is reported as a
\* join failure, the registry is exactly what it was before the attempt, and
\* the execution goes on to the choice of the EDA dataset.
C2_JoinErrorCaught ==
    [][ ( /\ pc = "join"
          /\ button'
          /\ MergeRaises(dataframes[left_name'], dataframes[right_name'], join_cols') )
        => ( /\ out' = Append(out, "error: join failed")
             /\ dataframes' = dataframes
             /\ pc' = "eda"
             /\ DOMAIN dataframes' # {} ) ]_vars

C2_Witness ==
    /\ pc = "eda"
    /\ button
    /\ Has("error: join failed")
    /\ left_name = "a.csv" /\ right_name = "s.CSV"

\* C3: a file that cannot be parsed does not end the execution, and the
\* datasets of every other uploaded file are registered.
C3_BadFileSkipped ==
    (pc # "start" /\ uploads # <<>>) =>
        /\ pc # "crashed"
        /\ \A i \in DOMAIN uploads :
              ~LoadRaises(uploads[i]) =>
                  DOMAIN load_dataframe(uploads[i]) \subseteq DOMAIN dataframes

\* C4: a join between two different datasets that share columns, with no join
\* column selected, is reported to the user and leaves the registry unchanged.
C4_EmptyKeysReported ==
    ( /\ pc = "eda"
      /\ left_name # right_name
      /\ CommonCols(dataframes[left_name], dataframes[right_name]) # {}
      /\ join_cols = {} )
    => (out # <<>> /\ dataframes = Ingested)

AfterColumns ==
    {"row filter", "download: selected", "overview", "summary statistics",
     "univariate", "line plot", "correlation heatmap",
     "info: not enough numeric features"}

\* C5: an execution in which no column is selected for analysis stops at the
\* column selection with a warning; nothing after it is rendered and the
\* working frame is not replaced.
C5_EmptySelectionStops ==
    (selected_df_name # None /\ pc # "cols" /\ selected_columns = <<>>) =>
        /\ pc = "stopped"
        /\ out # <<>>
        /\ out[Len(out)] = "warning: select at least one column"
        /\ \A i \in DOMAIN out : out[i] \notin AfterColumns
        /\ df = dataframes[selected_df_name]

\* the stop happens after a join preview was rendered in the same execution
C5_Witness ==
    /\ pc = "stopped"
    /\ selected_df_name # None
    /\ selected_columns = <<>>
    /\ Has("dataframe: joined")
    /\ df.columns # <<>>

\* C6: with all columns selected, in order, and every categorical column
\* left at all its distinct observed values, the filtered frame is the
\* chosen dataset.
C6_FilterIdentity ==
    ( /\ pc \in {"render", "done"}
      /\ selected_columns = dataframes[selected_df_name].columns
      /\ \A i \in DOMAIN selections :
            selections[i] = Options(dataframes[selected_df_name],
                                    CategoricalCols(dataframes[selected_df_name])[i]) )
    => df = dataframes[selected_df_name]

\* C7: a successful join of L and R changes the registry in exactly one
\* entry: "[Joined] L x R" maps to the join result, replacing whatever was
\* under that name; every other entry, L and R included, is unchanged.
C7_JoinSetsOneEntry ==
    [][ (pc = "join" /\ Has("success: join complete")')
        => LET label == "[Joined] " \o left_name' \o " x " \o right_name'
           IN  /\ DOMAIN dataframes' = DOMAIN dataframes \cup {label}
               /\ dataframes'[label] =
                     merge(dataframes[left_name'], dataframes[right_name'],
                           join_cols', join_type')
               /\ \A n \in DOMAIN dataframes \ {label} : dataframes'[n] = dataframes[n]
               /\ label \notin {left_name', right_name'} ]_vars

\* the join label was already the name of an uploaded dataset
C7_Witness ==
    /\ pc = "eda"
    /\ Has("success: join complete")
    /\ JoinLabel(left_name, right_name) \in DOMAIN Ingested
    /\ dataframes[JoinLabel(left_name, right_name)] # Ingested[JoinLabel(left_name, right_name)]

\* C8: a row of the projected frame is kept by the row filter iff, for every
\* categorical column selected, its value is in that column's allow-list;
\* the kept rows stay in order.
C8_RowFilterPredicate ==
    pc \in {"render", "done"} =>
        LET P == Project(dataframes[selected_df_name], selected_columns)
            cats == CategoricalCols(P)
        IN  /\ df.columns = selected_columns
            /\ Len(selections) = Len(cats)
            /\ df.rows = SelectSeq(P.rows,
                  LAMBDA row : \A i \in DOMAIN cats :
                                  row[ColIndex(P, cats[i])] \in selections[i])

\* allow-list {A, B} over 4 A, 3 B and 3 C rows keeps the 7 A/B rows
C8_Witness ==
    /\ pc = "render"
    /\ selected_df_name = "s.CSV"
    /\ selected_columns = <<"species">>
    /\ selections = <<{"A", "B"}>>
    /\ Len(df.rows) = 7
    /\ \A i \in DOMAIN df.rows : df.rows[i][1] \in {"A", "B"}

\* C9: with the same dataset on both sides, or no shared column, no join is
\* computed: the registry is the ingested one, an informational message is
\* shown and the execution goes on; a join that is attempted has two
\* different datasets and keys among their common columns.
C9_NoJoinWithoutTwoDatasets ==
    (PastJoin /\ left_name # None) =>
        /\ ( (left_name = right_name
              \/ CommonCols(Ingested[left_name], Ingested[right_name]) = {})
             => /\ dataframes = Ingested
                /\ DOMAIN dataframes # {}
                /\ ~button
                /\ (Has("info: select two different datasets")
                      \/ Has("info: no common columns"))
                /\ ~Has("success: join complete") /\ ~Has("error: join failed")
                /\ pc # "crashed" )
        /\ ( (Has("success: join complete") \/ Has("error: join failed"))
             => /\ left_name # right_name
                /\ join_cols # {}
                /\ join_cols \subseteq CommonCols(Ingested[left_name], Ingested[right_name]) )

C9_Witness ==
    /\ pc = "eda"
    /\ left_name # right_name
    /\ CommonCols(Ingested[left_name], Ingested[right_name]) = {}
    /\ Has("info: no common columns")

Count(seq, x) == Cardinality({i \in DOMAIN seq : seq[i] = x})

SameRows(a, b) == \A x \in Range(a) \cup Range(b) : Count(a, x) = Count(b, x)

\* the combinations of a left row and a right row that satisfy Agree, each
\* as the left values followed by the right values outside the keys
Combinations(L, R, on, Agree(_, _)) ==
    Concat([i \in DOMAIN L.rows |->
        Concat([j \in DOMAIN R.rows |->
            IF Agree(L.rows[i], R.rows[j])
            THEN << L.rows[i] \o
                    [c \in DOMAIN RightRest(R, on) |->
                        R.rows[j][ColIndex(R, RightRest(R, on)[c])]] >>
            ELSE <<>>])])

InnerJoinDone ==
    /\ pc = "eda"
    /\ Has("success: join complete")
    /\ join_type = "inner"

\* C10 as stated: the rows of an inner join are the combinations that agree
\* on every key, and a missing key agrees with nothing.
C10_InnerJoinNullNeverMatches ==
    InnerJoinDone =>
        LET L == Ingested[left_name]
            R == Ingested[right_name]
        IN  SameRows(dataframes[JoinLabel(left_name, right_name)].rows,
                Combinations(L, R, join_cols,
                    LAMBDA lrow, rrow : \A k \in join_cols :
                        /\ lrow[ColIndex(L, k)] = rrow[ColIndex(R, k)]
                        /\ lrow[ColIndex(L, k)] # NaN))

\* C10 amended: the rows of an inner join are the combinations that agree on
\* every key, where a missing key agrees with a missing key.
C10_InnerJoinRows ==
    InnerJoinDone =>
        LET L == Ingested[left_name]
            R == Ingested[right_name]
        IN  SameRows(dataframes[JoinLabel(left_name, right_name)].rows,
                Combinations(L, R, join_cols,
                    LAMBDA lrow, rrow : \A k \in join_cols :
                        lrow[ColIndex(L, k)] = rrow[ColIndex(R, k)]))

\* A and B joined on id give the single row (1, 10, 100)
C10_Witness ==
    /\ InnerJoinDone
    /\ left_name = "a.csv" /\ right_name = "b.csv"
    /\ join_cols = {"id"}
    /\ dataframes["[Joined] a.csv x b.csv"].rows = << <<"1", "10", "100">> >>

====
